---- MODULE Spec2Model ----
(***************************************************************************)
(* Verification model of the notebooks of akshseh/samples:                 *)
(*   src/03-integrations/tavily/deep-research.ipynb   (Tavily tools)       *)
(*   src/01-getting-started/12-fargate-deployment/deploy-agent.ipynb       *)
(*                                   (restaurant agent on Fargate)         *)
(* Text is modelled as a sequence of one-character strings, so that        *)
(* len(), slicing, strip(), split() and concatenation are computed as      *)
(* Python computes them.                                                   *)
(***************************************************************************)
EXTENDS Integers, Sequences, FiniteSets, TLC

VARIABLES
    pc,                 \* position of the tool call / request: "idle" or "done"
    call,               \* the invocation in progress: [tool, ...arguments]
    api_response,       \* what the external API answered to the call
    formatted_results,  \* the list formatted_results built by the formatter
    outcome,            \* how the call ended: [kind: "returned"|"raised", value]
    creds,              \* credentials the booking tools run under
    table,              \* the DynamoDB bookings table: set of items
    is_summarizing,     \* closure variable of run_agent_and_stream_response
    events,             \* items produced by agent.stream_async so far
    delivered,          \* chunks yielded to the HTTP response stream
    http,               \* state of the /invoke-streaming request
    ledger,             \* per key, the booking calls that succeeded so far
    requests,           \* the HTTP requests of the service, by request id
    agents,             \* the Agent objects get_agent() has built
    cells,              \* the is_summarizing variables of the generator calls
    chat,               \* the interactive loop of the notebook that is running
    callback            \* the agent invocation custom_callback_handler serves

vars == <<pc, call, api_response, formatted_results, outcome, creds, table,
          is_summarizing, events, delivered, http, ledger, requests, agents, cells,
          chat, callback>>

\* the state of the memory notebook cells
nb == <<chat, callback>>

\* the state of the concurrent request handlers
svc == <<requests, agents, cells>>

----------------------------------------------------------------------------
(* Bounds of the model *)

\* most results an API response carries in the model
MaxResults == 2

\* most items one agent.stream_async run produces in the model
MaxEvents == 3

----------------------------------------------------------------------------
(* Python values *)

\* a key that is not in the dict
Missing == [tag |-> "missing"]

\* Python None
None == [tag |-> "none"]

\* a Python str
Str(s) == [tag |-> "str", s |-> s]

\* a Python list
List(items) == [tag |-> "list", items |-> items]

\* dict.get(key, default) on a field that may be missing
DictGet(v, default) == IF v.tag = "missing" THEN default ELSE v

\* Python truthiness test "not v"
Falsy(v) ==
    \/ v.tag = "none"
    \/ (v.tag = "str" /\ v.s = <<>>)
    \/ (v.tag = "list" /\ v.items = <<>>)

\* what an f-string interpolates for a value
PyStr(v) ==
    IF v.tag = "str" THEN v.s ELSE <<"N","o","n","e">>

\* decimal digits of a natural number, as str(i) gives them
DigitChar(d) ==
    CASE d = 0 -> "0" [] d = 1 -> "1" [] d = 2 -> "2" [] d = 3 -> "3"
      [] d = 4 -> "4" [] d = 5 -> "5" [] d = 6 -> "6" [] d = 7 -> "7"
      [] d = 8 -> "8" [] d = 9 -> "9"

RECURSIVE IntToStr(_)
IntToStr(n) ==
    IF n < 10 THEN <<DigitChar(n)>>
    ELSE IntToStr(n \div 10) \o <<DigitChar(n % 10)>>

\* str.isspace for one character
IsSpace(c) == c \in {" ", "\n", "\t", "\r"}

RECURSIVE LStrip(_)
LStrip(s) ==
    IF s # <<>> /\ IsSpace(Head(s)) THEN LStrip(Tail(s)) ELSE s

RECURSIVE RStrip(_)
RStrip(s) ==
    IF s # <<>> /\ IsSpace(s[Len(s)]) THEN RStrip(SubSeq(s, 1, Len(s) - 1)) ELSE s

\* str.strip()
Strip(s) == RStrip(LStrip(s))

\* str.startswith(prefix)
StartsWith(s, prefix) ==
    /\ Len(prefix) <= Len(s)
    /\ \A j \in 1..Len(prefix) : s[j] = prefix[j]

\* does needle occur in s at 0-based offset k
MatchAt(s, k, needle) ==
    /\ k + Len(needle) <= Len(s)
    /\ \A j \in 1..Len(needle) : s[k + j] = needle[j]

\* the Python test "needle in s"
Contains(s, needle) == \E k \in 0..(Len(s) - Len(needle)) : MatchAt(s, k, needle)

\* separator.join(parts)
RECURSIVE Join(_, _)
Join(sep, parts) ==
    IF parts = <<>> THEN <<>>
    ELSE IF Len(parts) = 1 THEN parts[1]
    ELSE parts[1] \o sep \o Join(sep, Tail(parts))

\* s.split("\n")[0]: the text before the first newline
RECURSIVE FirstLine(_)
FirstLine(s) ==
    IF s = <<>> \/ Head(s) = "\n" THEN <<>>
    ELSE <<Head(s)>> \o FirstLine(Tail(s))

\* s[:n]
Slice(s, n) == SubSeq(s, 1, IF Len(s) < n THEN Len(s) ELSE n)

----------------------------------------------------------------------------
(* String literals of the source *)

NL ==
    <<"\n">>

NoSearchResults ==
    <<"N","o"," ","s","e","a","r","c","h"," ","r","e","s","u","l","t","s"," ","f","o","u","n","d",".">>

NoCrawlResults ==
    <<"N","o"," ","c","r","a","w","l"," ","r","e","s","u","l","t","s"," ","f","o","u","n","d",".">>

NoTitle ==
    <<"N","o"," ","t","i","t","l","e">>

NoURL ==
    <<"N","o"," ","U","R","L">>

ResultLabel ==
    <<"\n","R","E","S","U","L","T"," ">>

ColonNL ==
    <<":","\n">>

TitleLabel ==
    <<"T","i","t","l","e",":"," ">>

UrlLabel ==
    <<"U","R","L",":"," ">>

RawContentLabel ==
    <<"R","a","w"," ","C","o","n","t","e","n","t",":"," ">>

ContentLabel ==
    <<"C","o","n","t","e","n","t",":"," ">>

Ellipsis ==
    <<".",".",".">>

ErrorLabel ==
    <<"E","r","r","o","r",":"," ">>

UrlAttemptedLabel ==
    <<"U","R","L"," ","a","t","t","e","m","p","t","e","d",":"," ">>

FailedToCrawl ==
    <<"F","a","i","l","e","d"," ","t","o"," ","c","r","a","w","l"," ","t","h","e"," ","w","e","b","s","i","t","e",".">>

HttpScheme ==
    <<"h","t","t","p",":","/","/">>

HttpsScheme ==
    <<"h","t","t","p","s",":","/","/">>

UrlKey ==
    <<"\"","u","r","l","\"",":">>

UrlKeyName ==
    <<"\"","u","r","l","\"">>

FormatErrorLabel ==
    <<"E","r","r","o","r"," ","i","n"," ","r","e","s","e","a","r","c","h"," ","f","o","r","m","a","t","t","i","n","g",":"," ">>

----------------------------------------------------------------------------
(* Tavily search tool: deep-research.ipynb, format_search_results_for_agent
   and tavily_search *)

\* a Python dict with the keys the code reads
Dict(query, results) == [tag |-> "dict", query |-> query, results |-> results]

\* "not d" for a dict: it has no key at all
EmptyDict(d) == d.tag = "dict" /\ d.query.tag = "missing" /\ d.results.tag = "missing"

\* all sequences over S of length at most n
SeqsUpTo(S, n) == UNION {[1..k -> S] : k \in 0..n}

\* the character budget of a crawl body (lines 305-306)
MaxContentChars == 4000

\* a page text of n characters whose first line is "Intro"
LongRaw(n) ==
    [i \in 1..n |->
        IF i <= 5 THEN <<"I", "n", "t", "r", "o">>[i]
        ELSE IF i = 6 THEN "\n"
        ELSE IF i = n THEN "z"
        ELSE IF i % 2 = 0 THEN "a" ELSE "b"]

\* one search result as the search API returns it; one has no url and one
\* has a page text longer than 4000 characters
SearchDocs ==
    [title : {Missing, Str(<<"T", "1">>)},
     url : {Str(<<"u", "1">>)},
     raw_content : {Missing, None, Str(<<" ", "\n">>), Str(<<" ", "r", "\n", "w", " ">>)},
     content : {Missing, Str(<<" ", "c", "\n">>)}]
    \cup {[title |-> Str(<<"T", "1">>), url |-> Missing, raw_content |-> None,
           content |-> Str(<<" ", "c", "\n">>)]}
    \cup {[title |-> Str(<<"T", "1">>), url |-> Str(<<"u", "1">>),
           raw_content |-> Str(LongRaw(MaxContentChars + 1)), content |-> Missing]}

\* what client.search can return
SearchResponses ==
    {None, Dict(Missing, Missing), Dict(Str(<<"q">>), Missing), Dict(Str(<<"q">>), None)}
    \cup {Dict(Str(<<"q">>), List(docs)) : docs \in SeqsUpTo(SearchDocs, MaxResults)}

\* texts of the exceptions an external service raises
ErrorTexts == {<<"t", "i", "m", "e", "o", "u", "t">>, <<"4", "0", "1">>}

\* variant of SearchBodyLine that takes a whitespace-only raw_content
SearchBodyLine_NoStripTest(doc) ==
    LET raw_content == DictGet(doc.raw_content, None)
    IN  IF ~Falsy(raw_content)
        THEN RawContentLabel \o Strip(raw_content.s) \o NL
        ELSE LET content == Strip(DictGet(doc.content, Str(<<>>)).s)
             IN  ContentLabel \o content \o NL

\* the body line of one search result (lines 212-220)
SearchBodyLine(doc) ==
    LET raw_content == DictGet(doc.raw_content, None)
    IN  IF ~Falsy(raw_content) /\ Strip(raw_content.s) # <<>>
        THEN RawContentLabel \o Strip(raw_content.s) \o NL
        ELSE LET content == Strip(DictGet(doc.content, Str(<<>>)).s)
             IN  ContentLabel \o content \o NL

\* variant of FormatSearchDoc that numbers the results from 0
FormatSearchDoc_ZeroBased(i, doc) ==
    LET title == DictGet(doc.title, Str(NoTitle))
        url == DictGet(doc.url, Str(NoURL))
    IN  ResultLabel \o IntToStr(i - 1) \o ColonNL
        \o TitleLabel \o PyStr(title) \o NL
        \o UrlLabel \o PyStr(url) \o NL
        \o SearchBodyLine(doc)

\* the loop body of format_search_results_for_agent (lines 202-222)
FormatSearchDoc(i, doc) ==
    LET title == DictGet(doc.title, Str(NoTitle))
        url == DictGet(doc.url, Str(NoURL))
    IN  ResultLabel \o IntToStr(i) \o ColonNL
        \o TitleLabel \o PyStr(title) \o NL
        \o UrlLabel \o PyStr(url) \o NL
        \o SearchBodyLine(doc)

\* variant of SearchIsEmpty that forgets the empty "results" list
SearchIsEmpty_KeepsEmptyList(tavily_result) ==
    \/ Falsy(tavily_result)
    \/ EmptyDict(tavily_result)
    \/ tavily_result.results.tag = "missing"
    \/ tavily_result.results.tag = "none"

\* the test that guards the sentinel (lines 193-197)
SearchIsEmpty(tavily_result) ==
    \/ Falsy(tavily_result)
    \/ EmptyDict(tavily_result)
    \/ tavily_result.results.tag = "missing"
    \/ Falsy(tavily_result.results)

\* the list formatted_results of format_search_results_for_agent
SearchFormattedResults(tavily_result) ==
    IF SearchIsEmpty(tavily_result) THEN <<>>
    ELSE [i \in 1..Len(tavily_result.results.items) |->
             FormatSearchDoc(i, tavily_result.results.items[i])]

format_search_results_for_agent(tavily_result) ==
    IF SearchIsEmpty(tavily_result) THEN NoSearchResults
    ELSE NL \o Join(NL, SearchFormattedResults(tavily_result))

\* no tool call in progress
NoCall == [tool |-> "none"]

\* no API answer yet
NoResponse == [tag |-> "pending"]

\* an API call that raised an exception with text e
Raised(e) == [tag |-> "exception", e |-> e]

\* the call has not ended
NoOutcome == [kind |-> "none"]

\* a tool that returned text
Returned(v) == [kind |-> "returned", type |-> "str", value |-> v]

\* a tool whose exception reached the caller
Propagated(e) == [kind |-> "raised", type |-> "exception", value |-> e]

\* the time_range values the docstring names, and None
TimeRanges == {None, Str(<<"w">>)}

\* the number of results SYSTEM_PROMPT tells the agent a search returns
\* (lines 493-494)
PromptResultCount == 10

\* tavily_search (lines 227-253): no try/except around client.search
tavily_search(query, time_range, include_domains, reply) ==
    /\ pc = "idle"
    /\ pc' = "done"
    /\ call' = [tool |-> "tavily_search",
                query |-> query, time_range |-> time_range,
                include_domains |-> include_domains,
                request |-> [query |-> query, max_results |-> 5,
                             time_range |-> time_range,
                             include_domains |-> include_domains]]
    /\ api_response' = reply
    /\ IF reply.tag = "exception"
       THEN /\ formatted_results' = <<>>
            /\ outcome' = Propagated(reply.e)
       ELSE /\ formatted_results' = SearchFormattedResults(reply)
            /\ outcome' = Returned(format_search_results_for_agent(reply))
    /\ UNCHANGED <<creds, table, is_summarizing, events, delivered, http, ledger, svc, nb>>

TavilySearch ==
    \E time_range \in TimeRanges,
       reply \in SearchResponses \cup {Raised(e) : e \in ErrorTexts} :
        tavily_search(Str(<<"q">>), time_range, None, reply)

----------------------------------------------------------------------------
(* Tavily crawl tool: deep-research.ipynb, format_crawl_results_for_agent
   and tavily_crawl *)

\* "-" * 40 (line 313)
DashCount == 40

Dashes == [i \in 1..DashCount |-> "-"]

\* a crawl result dict
CrawlDoc(url, raw_content) == [tag |-> "dict", url |-> url, raw_content |-> raw_content]

\* one crawl result as the crawl API returns it; the last one is not a dict
CrawlDocs ==
    {CrawlDoc(Str(<<"u", "1">>), r) :
        r \in {Missing, None, Str(<<>>), Str(<<"H", "\n", "c", ".", ".", ".">>),
               Str(LongRaw(MaxContentChars)), Str(LongRaw(MaxContentChars + 1))}}
    \cup {CrawlDoc(Missing, Str(<<"H", "\n", "c", ".", ".", ".">>))}
    \cup {Str(<<"x">>)}

\* what tavily_client.crawl can return: a dict or a bare list
CrawlResponses ==
    {None, Dict(Missing, Missing), Dict(Str(<<"q">>), Missing), Dict(Str(<<"q">>), None)}
    \cup {Dict(Str(<<"q">>), List(docs)) : docs \in SeqsUpTo(CrawlDocs, MaxResults)}
    \cup {List(docs) : docs \in SeqsUpTo(CrawlDocs, MaxResults)}

\* variant of CrawlContentLine that also cuts a body of exactly the budget
CrawlContentLine_Inclusive(raw_content) ==
    IF Len(raw_content) >= MaxContentChars
    THEN ContentLabel \o Slice(raw_content, MaxContentChars) \o Ellipsis \o NL
    ELSE ContentLabel \o raw_content \o NL

\* the Content line of one crawl result (lines 304-308)
CrawlContentLine(raw_content) ==
    IF Len(raw_content) > MaxContentChars
    THEN ContentLabel \o Slice(raw_content, MaxContentChars) \o Ellipsis \o NL
    ELSE ContentLabel \o raw_content \o NL

\* variant of FormatCrawlDoc that leaves out a result without raw_content
FormatCrawlDoc_SkipsEmpty(i, doc) ==
    LET url == DictGet(doc.url, Str(NoURL))
        raw_content == DictGet(doc.raw_content, Str(<<>>))
    IN  IF ~Falsy(raw_content)
        THEN ResultLabel \o IntToStr(i) \o ColonNL
             \o UrlLabel \o PyStr(url) \o NL
             \o TitleLabel \o FirstLine(raw_content.s) \o NL
             \o CrawlContentLine(raw_content.s)
        ELSE <<>>

\* the loop body of format_crawl_results_for_agent (lines 291-310)
FormatCrawlDoc(i, doc) ==
    LET url == DictGet(doc.url, Str(NoURL))
        raw_content == DictGet(doc.raw_content, Str(<<>>))
    IN  ResultLabel \o IntToStr(i) \o ColonNL
        \o UrlLabel \o PyStr(url) \o NL
        \o (IF ~Falsy(raw_content)
            THEN TitleLabel \o FirstLine(raw_content.s) \o NL
                 \o CrawlContentLine(raw_content.s)
            ELSE <<>>)

\* doc.get on an item that is not a dict raises AttributeError
AttributeErrorText ==
    <<"'","s","t","r","'"," ","o","b","j","e","c","t"," ","h","a","s"," ","n","o"," ","a","t","t","r","i","b","u","t","e"," ","'","g","e","t","'">>

\* does format_crawl_results_for_agent raise on this argument
FormatCrawlRaises(tavily_result) ==
    /\ ~Falsy(tavily_result)
    /\ \E i \in 1..Len(tavily_result.items) : tavily_result.items[i].tag # "dict"

\* the list formatted_results of format_crawl_results_for_agent
CrawlFormattedResults(tavily_result) ==
    IF Falsy(tavily_result) \/ FormatCrawlRaises(tavily_result) THEN <<>>
    ELSE [i \in 1..Len(tavily_result.items) |-> FormatCrawlDoc(i, tavily_result.items[i])]

\* variant of format_crawl_results_for_agent without the early return
format_crawl_results_for_agent_NoEarlyReturn(tavily_result) ==
    NL \o Dashes \o Join(NL, CrawlFormattedResults(tavily_result))

\* the value format_crawl_results_for_agent returns when it does not raise
format_crawl_results_for_agent(tavily_result) ==
    IF Falsy(tavily_result) THEN NoCrawlResults
    ELSE NL \o Dashes \o Join(NL, CrawlFormattedResults(tavily_result))

\* first 0-based offset at or after k whose character is not whitespace
RECURSIVE SkipSpaces(_, _)
SkipSpaces(s, k) ==
    IF k < Len(s) /\ IsSpace(s[k + 1]) THEN SkipSpaces(s, k + 1) ELSE k

\* length of the run of characters other than '"' starting at offset k
RECURSIVE NonQuoteRun(_, _)
NonQuoteRun(s, k) ==
    IF k < Len(s) /\ s[k + 1] # "\"" THEN 1 + NonQuoteRun(s, k + 1) ELSE 0

\* match of the pattern "url"\s*:\s*"([^"]+)" anchored at offset p:
\* <<group 1>> when it matches, <<>> when it does not
UrlPatternAt(s, p) ==
    IF ~MatchAt(s, p, UrlKeyName) THEN <<>>
    ELSE LET colon == SkipSpaces(s, p + Len(UrlKeyName))
         IN  IF ~(colon < Len(s) /\ s[colon + 1] = ":") THEN <<>>
             ELSE LET quote == SkipSpaces(s, colon + 1)
                  IN  IF ~(quote < Len(s) /\ s[quote + 1] = "\"") THEN <<>>
                      ELSE LET run == NonQuoteRun(s, quote + 1)
                               close == quote + 1 + run
                           IN  IF run >= 1 /\ close < Len(s) /\ s[close + 1] = "\""
                               THEN <<SubSeq(s, quote + 2, quote + 1 + run)>>
                               ELSE <<>>

\* re.search: the leftmost match; <<group 1>> or <<>>
UrlPatternSearch(s) ==
    LET hits == {p \in 0..Len(s) : UrlPatternAt(s, p) # <<>>}
    IN  IF hits = {} THEN <<>>
        ELSE UrlPatternAt(s, CHOOSE p \in hits : \A q \in hits : p <= q)

\* recovery of the url from a JSON-like argument (lines 342-347)
ExtractUrl(url) ==
    IF StartsWith(Strip(url), <<"{">>) /\ Contains(url, UrlKey)
    THEN LET m == UrlPatternSearch(url)
         IN  IF m # <<>> THEN m[1] ELSE url
    ELSE url

\* variant of the scheme check that accepts only "https://"
EnsureScheme_HttpsOnly(url) ==
    IF ~StartsWith(url, HttpsScheme)
    THEN HttpsScheme \o url
    ELSE url

\* the scheme check (lines 349-350)
EnsureScheme(url) ==
    IF ~(StartsWith(url, HttpScheme) \/ StartsWith(url, HttpsScheme))
    THEN HttpsScheme \o url
    ELSE url

\* the url tavily_crawl passes to the API
NormalizeUrl(url) == EnsureScheme(ExtractUrl(url))

\* the error text of the except clause (line 369)
CrawlErrorText(e, url) ==
    ErrorLabel \o e \o NL \o UrlAttemptedLabel \o url \o NL \o FailedToCrawl

\* url arguments the model of the agent passes to tavily_crawl
CrawlUrlArgs ==
    {<<"x",".","i","o">>,
     <<"h","t","t","p",":","/","/","x",".","i","o">>,
     <<"{","\"","u","r","l","\"",":"," ","\"","x",".","i","o","\"","}">>,
     <<"{","\"","u","r","l","\"",":","\"","h","t","t","p","s",":","/","/","x",".","i","o","\"",","," ">>,
     <<"{","\"","u","r","l","\"",":","\"","\"","}">>,
     <<"{","\"","u","r","l","\""," ",":"," ","\"","x",".","i","o","\"","}">>}

\* variant of tavily_crawl whose error text names the url argument as given
tavily_crawl_ReportsArgument(url_arg, max_depth, limit, instructions, reply) ==
    LET url == NormalizeUrl(url_arg)
        tavily_results ==
            IF reply.tag = "dict" THEN DictGet(reply.results, None) ELSE reply
    IN  /\ pc = "idle"
        /\ pc' = "done"
        /\ call' = [tool |-> "tavily_crawl", url |-> url_arg,
                    request |-> [url |-> url, max_depth |-> max_depth,
                                 limit |-> limit, instructions |-> instructions]]
        /\ api_response' = reply
        /\ IF reply.tag = "exception"
           THEN /\ formatted_results' = <<>>
                /\ outcome' = Returned(CrawlErrorText(reply.e, url_arg))
           ELSE IF FormatCrawlRaises(tavily_results)
           THEN /\ formatted_results' = <<>>
                /\ outcome' = Returned(CrawlErrorText(AttributeErrorText, url_arg))
           ELSE /\ formatted_results' = CrawlFormattedResults(tavily_results)
                /\ outcome' = Returned(format_crawl_results_for_agent(tavily_results))
        /\ UNCHANGED <<creds, table, is_summarizing, events, delivered, http, ledger, svc, nb>>

\* tavily_crawl (lines 316-369)
tavily_crawl(url_arg, max_depth, limit, instructions, reply) ==
    LET url == NormalizeUrl(url_arg)
        tavily_results ==
            IF reply.tag = "dict" THEN DictGet(reply.results, None) ELSE reply
    IN  /\ pc = "idle"
        /\ pc' = "done"
        /\ call' = [tool |-> "tavily_crawl", url |-> url_arg,
                    request |-> [url |-> url, max_depth |-> max_depth,
                                 limit |-> limit, instructions |-> instructions]]
        /\ api_response' = reply
        /\ IF reply.tag = "exception"
           THEN /\ formatted_results' = <<>>
                /\ outcome' = Returned(CrawlErrorText(reply.e, url))
           ELSE IF FormatCrawlRaises(tavily_results)
           THEN /\ formatted_results' = <<>>
                /\ outcome' = Returned(CrawlErrorText(AttributeErrorText, url))
           ELSE /\ formatted_results' = CrawlFormattedResults(tavily_results)
                /\ outcome' = Returned(format_crawl_results_for_agent(tavily_results))
        /\ UNCHANGED <<creds, table, is_summarizing, events, delivered, http, ledger, svc, nb>>

TavilyCrawl ==
    \E url_arg \in CrawlUrlArgs,
       reply \in CrawlResponses \cup {Raised(e) : e \in ErrorTexts} :
        tavily_crawl(url_arg, 2, 20, None, reply)

----------------------------------------------------------------------------
(* Research formatter tool: deep-research.ipynb, format_research_response *)

\* line 452
ResearchContentLabel ==
    <<"R","e","s","e","a","r","c","h"," ","C","o","n","t","e","n","t",":","\n">>

\* the paragraph break of lines 452-458
BlankLine ==
    <<"\n","\n">>

\* line 455
FormatStyleLabel ==
    <<"R","e","q","u","e","s","t","e","d"," ","F","o","r","m","a","t"," ","S","t","y","l","e",":"," ">>

\* line 458
UserQueryLabel ==
    <<"O","r","i","g","i","n","a","l"," ","U","s","e","r"," ","Q","u","e","r","y",":"," ">>

\* line 460
PleaseFormat ==
    <<"P","l","e","a","s","e"," ","f","o","r","m","a","t"," ","t","h","i","s"," ","r","e","s","e","a","r","c","h"," ","c","o","n","t","e","n","t"," ","a","c","c","o","r","d","i","n","g"," ","t","o"," ","t","h","e"," ","g","u","i","d","e","l","i","n","e","s"," ","a","n","d"," ","a","p","p","r","o","p","r","i","a","t","e"," ","s","t","y","l","e",".">>

\* the prompt handed to the formatter agent (lines 452-460)
FormatInput(research_content, format_style, user_query) ==
    ResearchContentLabel \o research_content \o BlankLine
    \o (IF ~Falsy(format_style) THEN FormatStyleLabel \o format_style.s \o BlankLine ELSE <<>>)
    \o (IF ~Falsy(user_query) THEN UserQueryLabel \o user_query.s \o BlankLine ELSE <<>>)
    \o PleaseFormat

\* answers of the nested formatter agent: the model's text is opaque
FormatterReplies ==
    {Str(<<"#", " ", "A", " ", "[", "1", "]">>), Str(<<>>)} \cup {Raised(e) : e \in ErrorTexts}

\* format_research_response (lines 421-466)
format_research_response(research_content, format_style, user_query, reply) ==
    /\ pc = "idle"
    /\ pc' = "done"
    /\ call' = [tool |-> "format_research_response",
                research_content |-> research_content,
                format_style |-> format_style, user_query |-> user_query,
                request |-> FormatInput(research_content, format_style, user_query)]
    /\ api_response' = reply
    /\ formatted_results' = <<>>
    /\ IF reply.tag = "exception"
       THEN outcome' = Returned(FormatErrorLabel \o reply.e)
       ELSE outcome' = Returned(reply.s)
    /\ UNCHANGED <<creds, table, is_summarizing, events, delivered, http, ledger, svc, nb>>

FormatResearchResponse ==
    \E format_style \in {None, Str(<<>>), Str(<<"b", "l", "o", "g">>)},
       user_query \in {None, Str(<<"q", "?">>)},
       reply \in FormatterReplies :
        format_research_response(<<"r", "c">>, format_style, user_query, reply)

----------------------------------------------------------------------------
(* Booking tools: deploy-agent.ipynb, docker/app/get_booking.py,
   delete_booking.py and create_booking.py; the task role of the CDK stack *)

\* the SSM parameter the tools read: f'{kb_name}-table-name' (lines 209-214)
TableNameParameter == "parameter/restaurant-assistant-table-name"

\* the bookings table the parameter names
BookingsTable == "table/TableName"

\* the policy statements of taskRole (lines 551-585)
TaskRolePolicy ==
    {[actions |-> {"bedrock:InvokeModel", "bedrock:InvokeModelWithResponseStream"},
      resource |-> "*"],
     [actions |-> {"bedrock:Retrieve"},
      resource |-> "knowledge-base/kb_id"],
     [actions |-> {"dynamodb:ListTables", "dynamodb:GetItem", "dynamodb:GetRecords",
                   "dynamodb:DeleteItem", "dynamodb:DeleteTable",
                   "dynamodb:UpdateItem", "dynamodb:UpdateTable"},
      resource |-> "table/TableName"],
     [actions |-> {"ssm:GetParameter"},
      resource |-> "parameter/restaurant-assistant-table-name"]}

\* does the task role allow the action on the resource
TaskRoleAllows(action, resource) ==
    \E st \in TaskRolePolicy : action \in st.actions /\ st.resource \in {"*", resource}

\* IAM decision for a call of the tools: on Fargate the container runs under
\* taskRole; run locally (app.py, line 475) it uses the developer's
\* credentials, which created the table and may do everything on it
Allowed(action, resource) ==
    creds = "local" \/ TaskRoleAllows(action, resource)

\* str(e) of the ClientError boto3 raises when IAM denies the call
AccessDeniedText ==
    <<"A","c","c","e","s","s","D","e","n","i","e","d","E","x","c","e","p","t","i","o","n">>

\* str(e) of a transport failure of an AWS call
ServiceErrorText ==
    <<"E","n","d","p","o","i","n","t","C","o","n","n","e","c","t","i","o","n","E","r","r","o","r">>

\* lines 263, 320
BookingWithId ==
    <<"B","o","o","k","i","n","g"," ","w","i","t","h"," ","I","D"," ">>

\* line 320
CreatedSuccessfully ==
    <<" ","c","r","e","a","t","e","d"," ","s","u","c","c","e","s","s","f","u","l","l","y">>

\* line 263
DeletedSuccessfully ==
    <<" ","d","e","l","e","t","e","d"," ","s","u","c","c","e","s","s","f","u","l","l","y">>

\* line 226
NoBookingFound ==
    <<"N","o"," ","b","o","o","k","i","n","g"," ","f","o","u","n","d"," ","w","i","t","h"," ","I","D"," ">>

\* outcome of one boto3 call: <<>> when it succeeds, <<error text>> when it raises
AwsError(action, resource, faulty) ==
    IF ~Allowed(action, resource) THEN <<AccessDeniedText>>
    ELSE IF faulty THEN <<ServiceErrorText>>
    ELSE <<>>

\* the primary key of the table: (booking_id, restaurant_name)
Key(item) == <<item.booking_id, item.restaurant_name>>

\* table.put_item: unconditional write, replaces the item with the same key
PutItem(tbl, item) == {it \in tbl : Key(it) # Key(item)} \cup {item}

\* variant of delete_item that leaves the item in the table
DeleteItem_KeepsItem(tbl, booking_id, restaurant_name) == tbl

\* table.delete_item
DeleteItem(tbl, booking_id, restaurant_name) ==
    {it \in tbl : Key(it) # <<booking_id, restaurant_name>>}

\* variant of get_item that looks the item up by booking_id alone
GetItem_ByIdOnly(tbl, booking_id, restaurant_name) ==
    {it \in tbl : it.booking_id = booking_id}

\* table.get_item: the set of items with the key (empty or one item)
GetItem(tbl, booking_id, restaurant_name) ==
    {it \in tbl : Key(it) = <<booking_id, restaurant_name>>}

\* values of str(uuid.uuid4())[:8] in the model
BookingIds ==
    {<<"0","0","0","0","0","0","0","a">>, <<"0","0","0","0","0","0","0","b">>}

Restaurants == {"Rice & Spice", "NutriDine"}

GuestCounts == {2, 4}

\* which AWS call of the tool a transport failure hits, if any
Faults == {"none", "ssm", "dynamodb"}

\* the keys of the bookings table in the model
BookingKeys == BookingIds \X Restaurants

\* ledger entry of a key no create_booking or delete_booking has succeeded for
NoEntry == [op |-> "none", items |-> {}, removed |-> FALSE]

\* ledger after a put_item of create_booking succeeded: the items created
\* under the key since the last successful delete_booking
LedgerCreate(l, item) ==
    [l EXCEPT ![Key(item)] =
        [op |-> "created",
         items |-> (IF @.op = "created" THEN @.items ELSE {}) \cup {item},
         removed |-> FALSE]]

\* ledger after a delete_item of delete_booking succeeded; removed tells
\* whether the key held a booking that a create_booking had written
LedgerDelete(l, booking_id, restaurant_name) ==
    [l EXCEPT ![<<booking_id, restaurant_name>>] =
        [op |-> "deleted", items |-> {}, removed |-> @.op = "created"]]

\* a tool that returned a dict instead of text
ReturnedItem(item) == [kind |-> "returned", type |-> "dict", value |-> item]

\* get_booking_details (lines 198-229)
get_booking_details(booking_id, restaurant_name, fault) ==
    LET ssm_error == AwsError("ssm:GetParameter", TableNameParameter, fault = "ssm")
        get_error == AwsError("dynamodb:GetItem", BookingsTable, fault = "dynamodb")
        response == GetItem(table, booking_id, restaurant_name)
    IN  /\ pc = "idle"
        /\ pc' = "done"
        /\ call' = [tool |-> "get_booking_details", booking_id |-> booking_id,
                    restaurant_name |-> restaurant_name, fault |-> fault]
        /\ api_response' = NoResponse
        /\ formatted_results' = <<>>
        /\ outcome' =
             IF ssm_error # <<>> THEN Returned(ssm_error[1])
             ELSE IF get_error # <<>> THEN Returned(get_error[1])
             ELSE IF response # {} THEN ReturnedItem(CHOOSE it \in response : TRUE)
             ELSE Returned(NoBookingFound \o booking_id)
        /\ UNCHANGED <<creds, table, is_summarizing, events, delivered, http, ledger, svc, nb>>

GetBookingDetails ==
    \E booking_id \in BookingIds, restaurant_name \in Restaurants, fault \in Faults :
        get_booking_details(booking_id, restaurant_name, fault)

\* delete_booking (lines 242-268)
delete_booking(booking_id, restaurant_name, fault) ==
    LET ssm_error == AwsError("ssm:GetParameter", TableNameParameter, fault = "ssm")
        delete_error == AwsError("dynamodb:DeleteItem", BookingsTable, fault = "dynamodb")
    IN  /\ pc = "idle"
        /\ pc' = "done"
        /\ call' = [tool |-> "delete_booking", booking_id |-> booking_id,
                    restaurant_name |-> restaurant_name, fault |-> fault]
        /\ api_response' = NoResponse
        /\ formatted_results' = <<>>
        /\ IF ssm_error # <<>>
           THEN outcome' = Returned(ssm_error[1]) /\ table' = table /\ ledger' = ledger
           ELSE IF delete_error # <<>>
           THEN outcome' = Returned(delete_error[1]) /\ table' = table /\ ledger' = ledger
           ELSE /\ table' = DeleteItem(table, booking_id, restaurant_name)
                /\ ledger' = LedgerDelete(ledger, booking_id, restaurant_name)
                /\ outcome' = Returned(BookingWithId \o booking_id \o DeletedSuccessfully)
        /\ UNCHANGED <<creds, is_summarizing, events, delivered, http, svc, nb>>

DeleteBooking ==
    \E booking_id \in BookingIds, restaurant_name \in Restaurants, fault \in Faults :
        delete_booking(booking_id, restaurant_name, fault)

\* variant of create_booking without the try/except
create_booking_NoExcept(date, hour, restaurant_name, guest_name, num_guests, uuid, fault) ==
    LET ssm_error == AwsError("ssm:GetParameter", TableNameParameter, fault = "ssm")
        put_error == AwsError("dynamodb:PutItem", BookingsTable, fault = "dynamodb")
        booking_id == Slice(uuid, 8)
        item == [booking_id |-> booking_id, restaurant_name |-> restaurant_name,
                 date |-> date, name |-> guest_name, hour |-> hour,
                 num_guests |-> num_guests]
    IN  /\ pc = "idle"
        /\ pc' = "done"
        /\ call' = [tool |-> "create_booking", date |-> date, hour |-> hour,
                    restaurant_name |-> restaurant_name, guest_name |-> guest_name,
                    num_guests |-> num_guests, booking_id |-> booking_id,
                    fault |-> fault]
        /\ api_response' = NoResponse
        /\ formatted_results' = <<>>
        /\ IF ssm_error # <<>>
           THEN outcome' = Propagated(ssm_error[1]) /\ table' = table /\ ledger' = ledger
           ELSE IF put_error # <<>>
           THEN outcome' = Propagated(put_error[1]) /\ table' = table /\ ledger' = ledger
           ELSE /\ table' = PutItem(table, item)
                /\ ledger' = LedgerCreate(ledger, item)
                /\ outcome' = Returned(BookingWithId \o booking_id \o CreatedSuccessfully)
        /\ UNCHANGED <<creds, is_summarizing, events, delivered, http, svc, nb>>

\* create_booking (lines 282-325); uuid is the value uuid.uuid4() produces
create_booking(date, hour, restaurant_name, guest_name, num_guests, uuid, fault) ==
    LET ssm_error == AwsError("ssm:GetParameter", TableNameParameter, fault = "ssm")
        put_error == AwsError("dynamodb:PutItem", BookingsTable, fault = "dynamodb")
        booking_id == Slice(uuid, 8)
        item == [booking_id |-> booking_id, restaurant_name |-> restaurant_name,
                 date |-> date, name |-> guest_name, hour |-> hour,
                 num_guests |-> num_guests]
    IN  /\ pc = "idle"
        /\ pc' = "done"
        /\ call' = [tool |-> "create_booking", date |-> date, hour |-> hour,
                    restaurant_name |-> restaurant_name, guest_name |-> guest_name,
                    num_guests |-> num_guests, booking_id |-> booking_id,
                    fault |-> fault]
        /\ api_response' = NoResponse
        /\ formatted_results' = <<>>
        /\ IF ssm_error # <<>>
           THEN outcome' = Returned(ssm_error[1]) /\ table' = table /\ ledger' = ledger
           ELSE IF put_error # <<>>
           THEN outcome' = Returned(put_error[1]) /\ table' = table /\ ledger' = ledger
           ELSE /\ table' = PutItem(table, item)
                /\ ledger' = LedgerCreate(ledger, item)
                /\ outcome' = Returned(BookingWithId \o booking_id \o CreatedSuccessfully)
        /\ UNCHANGED <<creds, is_summarizing, events, delivered, http, svc, nb>>

CreateBooking ==
    \E restaurant_name \in Restaurants, num_guests \in GuestCounts,
       uuid \in {id \o <<"-", "1", "2", "3", "4">> : id \in BookingIds}, fault \in Faults :
        create_booking("2026-11-03", "20:00", restaurant_name, "Anna", num_guests, uuid, fault)

----------------------------------------------------------------------------
(* Streaming endpoint: deploy-agent.ipynb, docker/app/app.py *)

\* the tools get_agent() registers with the Agent (lines 405-408)
AgentTools ==
    {"retrieve", "current_time", "get_booking_details", "create_booking", "delete_booking"}

\* request bodies of the model: an empty and a non-empty prompt
Prompts == {"", "Make a reservation for tonight at Rice & Spice"}

\* text chunks the model generates
Chunks == {"Ok", "Done"}

\* an item of agent.stream_async that carries generated text
DataItem(chunk) == [type |-> "data", data |-> chunk]

\* an item of agent.stream_async that reports a tool use; it has no "data" key
ToolItem(name) == [type |-> "tool", name |-> name]

\* no request has been received
NoRequest == [state |-> "none"]

\* POST /invoke-streaming (lines 459-473) up to the return of the response;
\* the HTTPException of the empty prompt is raised inside the try block and
\* caught by "except Exception", which answers 500
get_invoke_streaming(prompt) ==
    /\ http.state \in {"none", "responded", "closed"}
    /\ IF prompt = ""
       THEN http' = [state |-> "responded", status |-> 500, prompt |-> prompt]
       ELSE http' = [state |-> "streaming", status |-> 200, prompt |-> prompt]
    /\ is_summarizing' = FALSE
    /\ events' = <<>>
    /\ delivered' = <<>>
    /\ UNCHANGED <<pc, call, api_response, formatted_results, outcome, creds, table, ledger, svc, nb>>

InvokeStreaming == \E prompt \in Prompts : get_invoke_streaming(prompt)

\* one iteration of the loop of run_agent_and_stream_response (lines 453-457)
\* on a data item
StreamData(chunk) ==
    /\ http.state = "streaming"
    /\ Len(events) < MaxEvents
    /\ events' = Append(events, DataItem(chunk))
    /\ delivered' = IF ~is_summarizing THEN delivered ELSE Append(delivered, chunk)
    /\ UNCHANGED <<pc, call, api_response, formatted_results, outcome, creds, table,
                   is_summarizing, http, ledger, svc, nb>>

AgentEmitsData == \E chunk \in Chunks : StreamData(chunk)

\* the agent runs one of its registered tools and the loop sees the item;
\* ready_to_summarize (lines 442-449) is the only writer of is_summarizing
StreamToolUse(name) ==
    /\ http.state = "streaming"
    /\ Len(events) < MaxEvents
    /\ events' = Append(events, ToolItem(name))
    /\ is_summarizing' = IF name = "ready_to_summarize" THEN TRUE ELSE is_summarizing
    /\ UNCHANGED <<pc, call, api_response, formatted_results, outcome, creds, table,
                   delivered, http, ledger, svc, nb>>

AgentUsesTool == \E name \in AgentTools : StreamToolUse(name)

\* agent.stream_async is exhausted and the response body ends
StreamEnd ==
    /\ http.state = "streaming"
    /\ http' = [http EXCEPT !.state = "closed"]
    /\ UNCHANGED <<pc, call, api_response, formatted_results, outcome, creds, table,
                   is_summarizing, events, delivered, ledger, svc, nb>>

----------------------------------------------------------------------------
(* Concurrent requests: deploy-agent.ipynb, docker/app/app.py *)

\* the HTTP requests the service handles; their handlers interleave
Requests == {"A", "B"}

\* upper bound on the messages of one conversation in the model
MaxMessages == 3

\* a request that has not arrived
IdleRequest ==
    [state |-> "none", endpoint |-> "none", prompt |-> "", status |-> 0,
     detail |-> "", body |-> "", raised |-> "", agent |-> 0, cell |-> 0,
     delivered |-> <<>>]

\* str(e) of an exception the model call raises
ModelErrorText == "ThrottlingException"

\* str(e) of an exception the construction of the model client raises
ConstructErrorText == "NoRegionError"

\* which call of the request fails, if any
RequestFaults == {"none", "get_agent"}

\* a conversation message; request names the handler whose call produced it
Message(role, r) == [role |-> role, request |-> r]

\* variant of get_agent that hands out one module-level Agent
get_agent_Singleton(heap, r) ==
    IF heap = <<>>
    THEN <<[owner |-> r, tools |-> AgentTools, messages |-> <<>>]>>
    ELSE heap

\* get_agent (lines 385-409): builds a new Agent on every call; the result is
\* the heap of Agent objects with the new one last
get_agent(heap, r) ==
    Append(heap, [owner |-> r, tools |-> AgentTools, messages |-> <<>>])

\* agent(prompt) and agent.stream_async(prompt) put the prompt into the
\* conversation of the agent they are called on
AddMessage(heap, a, m) ==
    [heap EXCEPT ![a].messages = Append(@, m)]

\* variant of invoke with the prompt check inside the try block
invoke_CheckInsideTry(r, prompt, fault) ==
    /\ requests[r].state = "none"
    /\ IF prompt = ""
       THEN /\ requests' = [requests EXCEPT ![r] =
                   [@ EXCEPT !.state = "responded", !.endpoint = "/invoke",
                             !.prompt = prompt, !.status = 500,
                             !.detail = "400: No prompt provided"]]
            /\ agents' = agents
       ELSE IF fault = "get_agent"
       THEN /\ requests' = [requests EXCEPT ![r] =
                   [@ EXCEPT !.state = "responded", !.endpoint = "/invoke",
                             !.prompt = prompt, !.status = 500,
                             !.detail = ConstructErrorText,
                             !.raised = ConstructErrorText]]
            /\ agents' = agents
       ELSE LET heap == get_agent(agents, r)
            IN  /\ agents' = AddMessage(heap, Len(heap), Message("user", r))
                /\ requests' = [requests EXCEPT ![r] =
                       [@ EXCEPT !.state = "running", !.endpoint = "/invoke",
                                 !.prompt = prompt, !.agent = Len(heap)]]
    /\ UNCHANGED <<pc, call, api_response, formatted_results, outcome, creds, table,
                   is_summarizing, events, delivered, http, ledger, cells, nb>>

\* POST /invoke (lines 419-433) up to the call of the agent: the empty prompt
\* is refused before the try block, so the HTTPException reaches the client;
\* an exception of get_agent() is answered by the except clause
invoke(r, prompt, fault) ==
    /\ requests[r].state = "none"
    /\ IF prompt = ""
       THEN /\ requests' = [requests EXCEPT ![r] =
                   [@ EXCEPT !.state = "responded", !.endpoint = "/invoke",
                             !.prompt = prompt, !.status = 400,
                             !.detail = "No prompt provided"]]
            /\ agents' = agents
       ELSE IF fault = "get_agent"
       THEN /\ requests' = [requests EXCEPT ![r] =
                   [@ EXCEPT !.state = "responded", !.endpoint = "/invoke",
                             !.prompt = prompt, !.status = 500,
                             !.detail = ConstructErrorText,
                             !.raised = ConstructErrorText]]
            /\ agents' = agents
       ELSE LET heap == get_agent(agents, r)
            IN  /\ agents' = AddMessage(heap, Len(heap), Message("user", r))
                /\ requests' = [requests EXCEPT ![r] =
                       [@ EXCEPT !.state = "running", !.endpoint = "/invoke",
                                 !.prompt = prompt, !.agent = Len(heap)]]
    /\ UNCHANGED <<pc, call, api_response, formatted_results, outcome, creds, table,
                   is_summarizing, events, delivered, http, ledger, cells, nb>>

Invoke ==
    \E r \in Requests, prompt \in Prompts, fault \in RequestFaults :
        invoke(r, prompt, fault)

\* one round of agent(prompt) (line 429): the model answers or a tool runs,
\* and the message joins the conversation of the request's agent
agent_round(r, role) ==
    /\ requests[r].state = "running"
    /\ Len(agents[requests[r].agent].messages) < MaxMessages
    /\ agents' = AddMessage(agents, requests[r].agent, Message(role, r))
    /\ UNCHANGED <<pc, call, api_response, formatted_results, outcome, creds, table,
                   is_summarizing, events, delivered, http, ledger, requests, cells, nb>>

AgentRound == \E r \in Requests, role \in {"assistant", "tool"} : agent_round(r, role)

\* agent(prompt) returns and /invoke answers with str(response) as plain
\* text (lines 430-431)
invoke_return(r, response) ==
    /\ requests[r].state = "running"
    /\ requests' = [requests EXCEPT ![r] =
           [@ EXCEPT !.state = "responded", !.status = 200, !.body = response]]
    /\ UNCHANGED <<pc, call, api_response, formatted_results, outcome, creds, table,
                   is_summarizing, events, delivered, http, ledger, agents, cells, nb>>

InvokeReturn == \E r \in Requests, response \in Chunks : invoke_return(r, response)

\* variant of invoke_except that hides the exception text from the client
invoke_except_GenericDetail(r) ==
    /\ requests[r].state = "running"
    /\ requests' = [requests EXCEPT ![r] =
           [@ EXCEPT !.state = "responded", !.status = 500,
                     !.detail = "Internal Server Error", !.raised = ModelErrorText]]
    /\ UNCHANGED <<pc, call, api_response, formatted_results, outcome, creds, table,
                   is_summarizing, events, delivered, http, ledger, agents, cells, nb>>

\* agent(prompt) raises and /invoke answers 500 with str(e) (lines 432-433)
invoke_except(r) ==
    /\ requests[r].state = "running"
    /\ requests' = [requests EXCEPT ![r] =
           [@ EXCEPT !.state = "responded", !.status = 500,
                     !.detail = ModelErrorText, !.raised = ModelErrorText]]
    /\ UNCHANGED <<pc, call, api_response, formatted_results, outcome, creds, table,
                   is_summarizing, events, delivered, http, ledger, agents, cells, nb>>

InvokeExcept == \E r \in Requests : invoke_except(r)

\* POST /invoke-streaming (lines 459-473): the handler refuses the empty
\* prompt inside its try block, so its own HTTPException is caught and turned
\* into a 500; otherwise it returns the StreamingResponse around the generator,
\* whose body has not begun to run
invoke_streaming(r, prompt) ==
    /\ requests[r].state = "none"
    /\ requests' = [requests EXCEPT ![r] =
           IF prompt = ""
           THEN [@ EXCEPT !.state = "responded", !.endpoint = "/invoke-streaming",
                          !.prompt = prompt, !.status = 500,
                          !.detail = "400: No prompt provided"]
           ELSE [@ EXCEPT !.state = "accepted", !.endpoint = "/invoke-streaming",
                          !.prompt = prompt, !.status = 200]]
    /\ UNCHANGED <<pc, call, api_response, formatted_results, outcome, creds, table,
                   is_summarizing, events, delivered, http, ledger, agents, cells, nb>>

InvokeStreamingRequest ==
    \E r \in Requests, prompt \in Prompts : invoke_streaming(r, prompt)

\* the server begins to send the body and the generator
\* run_agent_and_stream_response runs up to its loop (lines 440-453): the call
\* gets its own is_summarizing variable and its own agent; an exception of
\* get_agent() is raised in the generator, after the handler has returned
stream_start(r, fault) ==
    /\ requests[r].state = "accepted"
    /\ cells' = Append(cells, [owner |-> r, value |-> FALSE])
    /\ IF fault = "get_agent"
       THEN /\ requests' = [requests EXCEPT ![r] =
                   [@ EXCEPT !.state = "aborted", !.raised = ConstructErrorText,
                             !.cell = Len(cells) + 1]]
            /\ agents' = agents
       ELSE LET heap == get_agent(agents, r)
            IN  /\ agents' = AddMessage(heap, Len(heap), Message("user", r))
                /\ requests' = [requests EXCEPT ![r] =
                       [@ EXCEPT !.state = "streaming", !.agent = Len(heap),
                                 !.cell = Len(cells) + 1]]
    /\ UNCHANGED <<pc, call, api_response, formatted_results, outcome, creds, table,
                   is_summarizing, events, delivered, http, ledger, nb>>

StreamStart == \E r \in Requests, fault \in RequestFaults : stream_start(r, fault)

\* agent.stream_async raises while the body is being sent: the exception
\* leaves the generator and the response, whose status line is out, breaks off
stream_except(r) ==
    /\ requests[r].state = "streaming"
    /\ requests' = [requests EXCEPT ![r] =
           [@ EXCEPT !.state = "aborted", !.raised = ModelErrorText]]
    /\ UNCHANGED <<pc, call, api_response, formatted_results, outcome, creds, table,
                   is_summarizing, events, delivered, http, ledger, agents, cells, nb>>

StreamExcept == \E r \in Requests : stream_except(r)

\* one iteration of the loop of the generator (lines 453-457) on a data item:
\* it reads the is_summarizing variable of its own call
stream_data(r, chunk) ==
    /\ requests[r].state = "streaming"
    /\ Len(agents[requests[r].agent].messages) < MaxMessages
    /\ agents' = AddMessage(agents, requests[r].agent, Message("assistant", r))
    /\ requests' = [requests EXCEPT ![r].delivered =
           IF ~cells[requests[r].cell].value THEN @ ELSE Append(@, chunk)]
    /\ UNCHANGED <<pc, call, api_response, formatted_results, outcome, creds, table,
                   is_summarizing, events, delivered, http, ledger, cells, nb>>

StreamDataItem == \E r \in Requests, chunk \in Chunks : stream_data(r, chunk)

\* the agent of the request runs one of its tools; ready_to_summarize
\* (lines 442-449) writes the is_summarizing variable of its own call
stream_tool(r, name) ==
    /\ requests[r].state = "streaming"
    /\ Len(agents[requests[r].agent].messages) < MaxMessages
    /\ name \in agents[requests[r].agent].tools
    /\ agents' = AddMessage(agents, requests[r].agent, Message("tool", r))
    /\ cells' = [cells EXCEPT ![requests[r].cell].value =
           IF name = "ready_to_summarize" THEN TRUE ELSE @]
    /\ UNCHANGED <<pc, call, api_response, formatted_results, outcome, creds, table,
                   is_summarizing, events, delivered, http, ledger, requests, nb>>

StreamToolItem ==
    \E r \in Requests, name \in AgentTools \cup {"ready_to_summarize"} : stream_tool(r, name)

\* agent.stream_async is exhausted and the response body of the request ends
stream_end(r) ==
    /\ requests[r].state = "streaming"
    /\ requests' = [requests EXCEPT ![r].state = "closed"]
    /\ UNCHANGED <<pc, call, api_response, formatted_results, outcome, creds, table,
                   is_summarizing, events, delivered, http, ledger, agents, cells, nb>>

StreamClose == \E r \in Requests : stream_end(r)

----------------------------------------------------------------------------
(* Interactive loops: deep-research.ipynb, the cells of lines 824-841 and
   1124-1144 *)

\* upper bound on the iterations of one loop run in the model
MaxTurns == 3

UpperCaseLetters ==
    <<"A","B","C","D","E","F","G","H","I","J","K","L","M",
      "N","O","P","Q","R","S","T","U","V","W","X","Y","Z">>

LowerCaseLetters ==
    <<"a","b","c","d","e","f","g","h","i","j","k","l","m",
      "n","o","p","q","r","s","t","u","v","w","x","y","z">>

\* str.lower on one character
LowerChar(c) ==
    IF \E i \in 1..Len(UpperCaseLetters) : UpperCaseLetters[i] = c
    THEN LowerCaseLetters[CHOOSE i \in 1..Len(UpperCaseLetters) : UpperCaseLetters[i] = c]
    ELSE c

\* str.lower
Lower(s) == [i \in 1..Len(s) |-> LowerChar(s[i])]

\* lines 828, 1128
ExitWord == <<"e","x","i","t">>

\* line 1131
DemoWord == <<"d","e","m","o">>

\* the agents the two loops call
ChatLoops == {"memory_demo_agent", "memory_agent"}

\* what the user types at the prompt
ChatInputs ==
    {<<"e","x","i","t">>, <<"E","X","I","T">>, <<"E","x","i","t">>, <<" ","e","x","i","t">>,
     <<"d","e","m","o">>, <<"D","e","m","o">>, <<"h","i">>, <<>>}

\* how input() ends: with the typed text, with the KeyboardInterrupt of an
\* interrupted kernel, or with another exception (EOFError)
InputEvents == {"text", "interrupt", "error"}

\* how a call made by the loop body ends: it returns, raises an exception, or
\* the user interrupts it
CallResults == {"returns", "raises", "interrupted"}

\* str(e) of the exceptions of the model
InputErrorText == "EOF when reading a line"

AgentErrorText == "ThrottlingException"

\* no iteration has run yet
NoTurn == [input |-> <<>>, event |-> "none", called |-> "none", result |-> "none"]

\* no loop cell has been run
NoChat ==
    [loop |-> "none", state |-> "off", turns |-> 0, agent_calls |-> 0, stores |-> 0,
     reported |-> "", ended_by |-> "none", last |-> NoTurn]

\* the cell of a loop is run: "while True" is entered
start_chat(loop) ==
    /\ chat.state \in {"off", "ended"}
    /\ chat' = [NoChat EXCEPT !.loop = loop, !.state = "prompting"]
    /\ UNCHANGED <<pc, call, api_response, formatted_results, outcome, creds, table,
                   is_summarizing, events, delivered, http, ledger, svc, callback>>

StartChat == \E loop \in ChatLoops : start_chat(loop)

\* variant of the loop body whose exit test compares the input as typed
chat_iteration_CaseSensitive(event, user_input, result) ==
    LET turn(called) ==
            [input |-> IF event = "text" THEN user_input ELSE <<>>,
             event |-> event, called |-> called,
             result |-> IF called = "none" THEN "none" ELSE result]
        ends(by, called) ==
            [chat EXCEPT !.state = "ended", !.ended_by = by, !.turns = @ + 1,
                         !.last = turn(called)]
        goes_on(called, text) ==
            [chat EXCEPT !.turns = @ + 1, !.reported = text, !.last = turn(called)]
    IN  /\ chat.state = "prompting"
        /\ chat.turns < MaxTurns
        /\ chat' =
             IF event = "interrupt" THEN ends("interrupt", "none")
             ELSE IF event = "error" THEN goes_on("none", InputErrorText)
             ELSE IF user_input = ExitWord THEN ends("exit", "none")
             ELSE IF chat.loop = "memory_agent" /\ Lower(user_input) = DemoWord
             THEN CASE result = "returns" ->
                         [goes_on("initialize_user_preferences", "") EXCEPT !.stores = @ + 1]
                    [] result = "raises" ->
                         goes_on("initialize_user_preferences", AgentErrorText)
                    [] result = "interrupted" ->
                         ends("interrupt", "initialize_user_preferences")
             ELSE CASE result = "returns" ->
                         [goes_on("agent", "") EXCEPT !.agent_calls = @ + 1]
                    [] result = "raises" ->
                         [goes_on("agent", AgentErrorText) EXCEPT !.agent_calls = @ + 1]
                    [] result = "interrupted" ->
                         [ends("interrupt", "agent") EXCEPT !.agent_calls = @ + 1]
        /\ UNCHANGED <<pc, call, api_response, formatted_results, outcome, creds, table,
                       is_summarizing, events, delivered, http, ledger, svc, callback>>

\* one iteration of "while True" (lines 825-841 and 1125-1144): input(), the
\* exit and demo tests, the call, and the two except clauses
chat_iteration(event, user_input, result) ==
    LET turn(called) ==
            [input |-> IF event = "text" THEN user_input ELSE <<>>,
             event |-> event, called |-> called,
             result |-> IF called = "none" THEN "none" ELSE result]
        ends(by, called) ==
            [chat EXCEPT !.state = "ended", !.ended_by = by, !.turns = @ + 1,
                         !.last = turn(called)]
        goes_on(called, text) ==
            [chat EXCEPT !.turns = @ + 1, !.reported = text, !.last = turn(called)]
    IN  /\ chat.state = "prompting"
        /\ chat.turns < MaxTurns
        /\ chat' =
             IF event = "interrupt" THEN ends("interrupt", "none")
             ELSE IF event = "error" THEN goes_on("none", InputErrorText)
             ELSE IF Lower(user_input) = ExitWord THEN ends("exit", "none")
             ELSE IF chat.loop = "memory_agent" /\ Lower(user_input) = DemoWord
             THEN CASE result = "returns" ->
                         [goes_on("initialize_user_preferences", "") EXCEPT !.stores = @ + 1]
                    [] result = "raises" ->
                         goes_on("initialize_user_preferences", AgentErrorText)
                    [] result = "interrupted" ->
                         ends("interrupt", "initialize_user_preferences")
             ELSE CASE result = "returns" ->
                         [goes_on("agent", "") EXCEPT !.agent_calls = @ + 1]
                    [] result = "raises" ->
                         [goes_on("agent", AgentErrorText) EXCEPT !.agent_calls = @ + 1]
                    [] result = "interrupted" ->
                         [ends("interrupt", "agent") EXCEPT !.agent_calls = @ + 1]
        /\ UNCHANGED <<pc, call, api_response, formatted_results, outcome, creds, table,
                       is_summarizing, events, delivered, http, ledger, svc, callback>>

ChatIteration ==
    \E event \in InputEvents, user_input \in ChatInputs, result \in CallResults :
        chat_iteration(event, user_input, result)

----------------------------------------------------------------------------
(* Request state: deep-research.ipynb, custom_callback_handler and the
   invocation of lines 927-947 *)

\* an int value
PyInt(n) == [tag |-> "int", n |-> n]

\* the empty request state dict the agent call begins with (lines 915-916)
EmptyRequestState == [counter |-> Missing]

\* no invocation of the agent has been made
NoInvocation ==
    [state |-> "off", invocations |-> 0, calls |-> 0, with_state |-> 0,
     request_state |-> EmptyRequestState, printed |-> <<>>,
     returned |-> EmptyRequestState]

\* memory_demo_agent(...) is called (line 945): the request state is
\* initialized at the beginning of the call
agent_invocation ==
    /\ callback.state \in {"off", "returned"}
    /\ callback.invocations < MaxTurns
    /\ callback' = [callback EXCEPT !.state = "running", !.invocations = @ + 1,
                                    !.calls = 0, !.with_state = 0,
                                    !.request_state = EmptyRequestState,
                                    !.printed = <<>>]
    /\ UNCHANGED <<pc, call, api_response, formatted_results, outcome, creds, table,
                   is_summarizing, events, delivered, http, ledger, svc, chat>>

\* variant of custom_callback_handler that counts only from the second event
custom_callback_handler_InitOnly(has_request_state) ==
    LET state == callback.request_state
        counter == IF state.counter.tag = "missing" THEN 0 ELSE state.counter.n + 1
    IN  /\ callback.state = "running"
        /\ callback.calls < MaxEvents
        /\ callback' =
             IF has_request_state
             THEN [callback EXCEPT !.calls = @ + 1, !.with_state = @ + 1,
                                   !.request_state = [state EXCEPT !.counter = PyInt(counter)],
                                   !.printed = Append(@, counter)]
             ELSE [callback EXCEPT !.calls = @ + 1]
        /\ UNCHANGED <<pc, call, api_response, formatted_results, outcome, creds, table,
                       is_summarizing, events, delivered, http, ledger, svc, chat>>

\* custom_callback_handler (lines 927-935), called for one event of the
\* invocation; has_request_state is the test "request_state" in kwargs
custom_callback_handler(has_request_state) ==
    LET state == callback.request_state
        counter == (IF state.counter.tag = "missing" THEN 0 ELSE state.counter.n) + 1
    IN  /\ callback.state = "running"
        /\ callback.calls < MaxEvents
        /\ callback' =
             IF has_request_state
             THEN [callback EXCEPT !.calls = @ + 1, !.with_state = @ + 1,
                                   !.request_state = [state EXCEPT !.counter = PyInt(counter)],
                                   !.printed = Append(@, counter)]
             ELSE [callback EXCEPT !.calls = @ + 1]
        /\ UNCHANGED <<pc, call, api_response, formatted_results, outcome, creds, table,
                       is_summarizing, events, delivered, http, ledger, svc, chat>>

CallbackEvent == \E has_request_state \in BOOLEAN : custom_callback_handler(has_request_state)

\* the agent call returns its AgentResult, which carries the request state
\* (line 918)
agent_result ==
    /\ callback.state = "running"
    /\ callback' = [callback EXCEPT !.state = "returned",
                                    !.returned = callback.request_state]
    /\ UNCHANGED <<pc, call, api_response, formatted_results, outcome, creds, table,
                   is_summarizing, events, delivered, http, ledger, svc, chat>>

----------------------------------------------------------------------------
(* Specifications *)

\* the tool result goes back to the agent; the next call starts afresh
ToolReturn ==
    /\ pc = "done"
    /\ pc' = "idle"
    /\ call' = NoCall
    /\ api_response' = NoResponse
    /\ formatted_results' = <<>>
    /\ outcome' = NoOutcome
    /\ UNCHANGED <<creds, table, is_summarizing, events, delivered, http, ledger, svc, nb>>

\* no request of the restaurant service is being served
StreamIdle ==
    /\ is_summarizing = FALSE
    /\ events = <<>>
    /\ delivered = <<>>
    /\ http = NoRequest

\* no request has reached the concurrent handlers and no booking call has
\* succeeded
ServiceIdle ==
    /\ requests = [r \in Requests |-> IdleRequest]
    /\ agents = <<>>
    /\ cells = <<>>
    /\ ledger = [k \in BookingKeys |-> NoEntry]

\* no cell of the memory notebook is running
NotebookIdle ==
    /\ chat = NoChat
    /\ callback = NoInvocation

\* no tool call is in progress
ToolIdle ==
    /\ pc = "idle"
    /\ call = NoCall
    /\ api_response = NoResponse
    /\ formatted_results = <<>>
    /\ outcome = NoOutcome

\* the research notebook: the bookings table plays no part
InitSearch ==
    ToolIdle /\ StreamIdle /\ ServiceIdle /\ NotebookIdle /\ creds = "local" /\ table = {}

NextSearch == TavilySearch \/ ToolReturn

SpecSearch == InitSearch /\ [][NextSearch]_vars

InitCrawl ==
    ToolIdle /\ StreamIdle /\ ServiceIdle /\ NotebookIdle /\ creds = "local" /\ table = {}

NextCrawl == TavilyCrawl \/ ToolReturn

SpecCrawl == InitCrawl /\ [][NextCrawl]_vars

\* the tools that wrap their body in try/except, run on Fargate or locally
InitAdapters ==
    /\ ToolIdle /\ StreamIdle /\ ServiceIdle /\ NotebookIdle
    /\ creds \in {"task_role", "local"}
    /\ table = {}

NextAdapters ==
    \/ GetBookingDetails
    \/ CreateBooking
    \/ DeleteBooking
    \/ FormatResearchResponse
    \/ ToolReturn

SpecAdapters == InitAdapters /\ [][NextAdapters]_vars

\* the deployed service serving /invoke-streaming requests one after another
InitStream ==
    ToolIdle /\ StreamIdle /\ ServiceIdle /\ NotebookIdle /\ creds = "task_role" /\ table = {}

NextStream ==
    \/ InvokeStreaming
    \/ AgentEmitsData
    \/ AgentUsesTool
    \/ StreamEnd

SpecStream == InitStream /\ [][NextStream]_vars

\* the deployed service handling the requests of Requests concurrently
InitService ==
    ToolIdle /\ StreamIdle /\ ServiceIdle /\ NotebookIdle /\ creds = "task_role" /\ table = {}

NextService ==
    \/ Invoke
    \/ AgentRound
    \/ InvokeReturn
    \/ InvokeExcept
    \/ InvokeStreamingRequest
    \/ StreamStart
    \/ StreamExcept
    \/ StreamDataItem
    \/ StreamToolItem
    \/ StreamClose

SpecService == InitService /\ [][NextService]_vars

\* the two interactive loops of the memory notebook, run one after another
InitChat ==
    ToolIdle /\ StreamIdle /\ ServiceIdle /\ NotebookIdle /\ creds = "local" /\ table = {}

NextChat == StartChat \/ ChatIteration

SpecChat == InitChat /\ [][NextChat]_vars

\* invocations of the agent that reports its events to custom_callback_handler
InitCallback ==
    ToolIdle /\ StreamIdle /\ ServiceIdle /\ NotebookIdle /\ creds = "local" /\ table = {}

NextCallback == agent_invocation \/ CallbackEvent \/ agent_result

SpecCallback == InitCallback /\ [][NextCallback]_vars

----------------------------------------------------------------------------
(* Properties *)

\* a tavily_search call has ended
SearchDone == pc = "done" /\ call.tool = "tavily_search"

\* a tavily_crawl call has ended
CrawlDone == pc = "done" /\ call.tool = "tavily_crawl"

\* the response carries no result: None, no "results" key, or an empty list
ZeroResults(r) ==
    \/ r.tag = "none"
    \/ (r.tag = "list" /\ Len(r.items) = 0)
    \/ (r.tag = "dict" /\ r.results.tag = "missing")
    \/ (r.tag = "dict" /\ r.results.tag = "list" /\ Len(r.results.items) = 0)

\* the results of a response that carries at least one, else the empty list
ResultItems(r) ==
    IF r.tag = "list" THEN r.items
    ELSE IF r.tag = "dict" /\ r.results.tag = "list" THEN r.results.items
    ELSE <<>>

\* s ends with suffix
EndsWith(s, suffix) ==
    /\ Len(suffix) <= Len(s)
    /\ \A j \in 1..Len(suffix) : s[Len(s) - Len(suffix) + j] = suffix[j]

\* the needles occur in s one after another, without overlap, from offset k on
RECURSIVE OccurInOrder(_, _, _)
OccurInOrder(s, needles, k) ==
    \/ needles = <<>>
    \/ \E p \in k..(Len(s) - Len(needles[1])) :
          /\ MatchAt(s, p, needles[1])
          /\ OccurInOrder(s, Tail(needles), p + Len(needles[1]))

(* C1: format_search_results_for_agent, and so tavily_search, returns exactly
   "No search results found." when the response is None or empty, has no
   "results" key or has an empty "results" list; it never returns the empty
   string. *)
C1_SearchSentinel ==
    (SearchDone /\ api_response.tag # "exception") =>
        /\ outcome.kind = "returned"
        /\ outcome.value # <<>>
        /\ (ZeroResults(api_response) => outcome.value = NoSearchResults)

C1_Witness ==
    /\ SearchDone
    /\ api_response.tag = "dict"
    /\ api_response.results = List(<<>>)
    /\ outcome.value = NoSearchResults

(* C2: when the crawl API returns zero results (an empty list, a dict whose
   "results" is empty, or a dict without "results"), tavily_crawl returns
   exactly "No crawl results found." *)
C2_CrawlSentinel ==
    (CrawlDone /\ api_response.tag # "exception" /\ ZeroResults(api_response)) =>
        outcome = Returned(NoCrawlResults)

C2_Witness ==
    /\ CrawlDone
    /\ api_response = Dict(Str(<<"q">>), List(<<>>))
    /\ outcome.value = NoCrawlResults

\* first offset at or after k at which needle occurs in s (Len(s) when none)
RECURSIVE FindFrom(_, _, _)
FindFrom(s, needle, k) ==
    IF k + Len(needle) > Len(s) THEN Len(s)
    ELSE IF MatchAt(s, k, needle) THEN k
    ELSE FindFrom(s, needle, k + 1)

\* the body a crawl block emits: the text between the first "Content: " label
\* at a line start and the newline that ends the block
EmittedCrawlBody(block) ==
    LET label == NL \o ContentLabel
        k == FindFrom(block, label, 0)
    IN  IF k = Len(block) THEN <<>>
        ELSE SubSeq(block, k + Len(label) + 1, Len(block) - 1)

\* the text of raw_content, empty when the key is missing
RawText(doc) == IF doc.raw_content.tag = "str" THEN doc.raw_content.s ELSE <<>>

(* C3: for every crawl result the body is emitted verbatim, with no marker,
   when len(raw_content) <= 4000, and as its first 4000 characters followed
   by "..." when len(raw_content) > 4000. *)
C3_CrawlTruncation ==
    (CrawlDone /\ formatted_results # <<>>) =>
        \A i \in 1..Len(formatted_results) :
            LET raw == RawText(ResultItems(api_response)[i])
                body == EmittedCrawlBody(formatted_results[i])
            IN  IF Len(raw) <= MaxContentChars
                THEN body = raw
                ELSE /\ Len(body) = MaxContentChars + 3
                     /\ SubSeq(body, 1, MaxContentChars) = SubSeq(raw, 1, MaxContentChars)
                     /\ EndsWith(body, <<".", ".", ".">>)

C3_Witness ==
    /\ CrawlDone
    /\ Len(formatted_results) = 2
    /\ Len(RawText(ResultItems(api_response)[1])) = MaxContentChars
    /\ Len(RawText(ResultItems(api_response)[2])) = MaxContentChars + 1
    /\ EndsWith(formatted_results[2], <<".", ".", ".", "\n">>)

\* the text the code prints for a field: its value, or the default when missing
FieldText(v, default) == IF v.tag = "str" THEN v.s ELSE default

\* raw_content is present and not only whitespace
UsableRaw(doc) ==
    /\ doc.raw_content.tag = "str"
    /\ \E j \in 1..Len(doc.raw_content.s) : ~IsSpace(doc.raw_content.s[j])

\* the index, title and URL lines of result i
ExpectedSearchHead(i, doc) ==
    <<"R", "E", "S", "U", "L", "T", " ">> \o IntToStr(i) \o <<":", "\n">>
    \o <<"T", "i", "t", "l", "e", ":", " ">> \o FieldText(doc.title, NoTitle) \o <<"\n">>
    \o <<"U", "R", "L", ":", " ">> \o FieldText(doc.url, NoURL) \o <<"\n">>

\* the snippet line of a result
ExpectedSnippetLine(doc) ==
    <<"C", "o", "n", "t", "e", "n", "t", ":", " ">>
    \o Strip(FieldText(doc.content, <<>>)) \o <<"\n">>

(* C4: for a search response with n >= 1 results the output contains, for
   each i in 1..n in the order of the response, "RESULT i:" followed by
   "Title: <title>", "URL: <url>" and, when the result has no usable
   raw_content, "Content: <content stripped of surrounding whitespace>". *)
C4_SearchBlocks ==
    (SearchDone /\ ResultItems(api_response) # <<>>) =>
        LET docs == ResultItems(api_response)
        IN  /\ outcome.kind = "returned"
            /\ OccurInOrder(outcome.value,
                   [i \in 1..Len(docs) |->
                       ExpectedSearchHead(i, docs[i])
                       \o (IF UsableRaw(docs[i]) THEN <<>> ELSE ExpectedSnippetLine(docs[i]))],
                   0)

C4_Witness ==
    /\ SearchDone
    /\ Len(ResultItems(api_response)) = 2
    /\ ~UsableRaw(ResultItems(api_response)[1])
    /\ ResultItems(api_response)[1].content.tag = "str"
    /\ UsableRaw(ResultItems(api_response)[2])
    /\ outcome.kind = "returned"

(* C5: for every search result the emitted body is raw_content (stripped)
   when raw_content is present and not only whitespace, and content
   (stripped) otherwise; each result gets exactly one of the two body lines,
   never both and never neither. *)
C5_SearchBody ==
    (SearchDone /\ ResultItems(api_response) # <<>>) =>
        /\ Len(formatted_results) = Len(ResultItems(api_response))
        /\ \A i \in 1..Len(formatted_results) :
              LET doc == ResultItems(api_response)[i]
                  head == <<"\n">> \o ExpectedSearchHead(i, doc)
                  block == formatted_results[i]
                  body == SubSeq(block, Len(head) + 1, Len(block))
              IN  /\ StartsWith(block, head)
                  /\ IF UsableRaw(doc)
                     THEN body = <<"R", "a", "w", " ">> \o <<"C", "o", "n", "t", "e", "n", "t", ":", " ">>
                                 \o Strip(doc.raw_content.s) \o <<"\n">>
                     ELSE body = ExpectedSnippetLine(doc)

C5_Witness ==
    /\ SearchDone
    /\ Len(formatted_results) = 2
    /\ ResultItems(api_response)[1].raw_content = Str(<<" ", "\n">>)
    /\ ResultItems(api_response)[1].content.tag = "str"
    /\ UsableRaw(ResultItems(api_response)[2])
    /\ ResultItems(api_response)[2].content.tag = "str"

\* the crawl call failed: the API raised, or a result could not be formatted
CrawlFailureText ==
    IF api_response.tag = "exception" THEN <<api_response.e>>
    ELSE IF \E i \in 1..Len(ResultItems(api_response)) :
                ResultItems(api_response)[i].tag # "dict"
    THEN <<AttributeErrorText>>
    ELSE <<>>

(* C6: tavily_crawl never raises: when the crawl API call or the formatting
   of its response fails, the tool returns a string that contains the error
   text and the URL that was passed to the API. *)
C6_CrawlNeverRaises ==
    CrawlDone =>
        /\ outcome.kind = "returned"
        /\ outcome.type = "str"
        /\ (CrawlFailureText # <<>> =>
               /\ Contains(outcome.value, CrawlFailureText[1])
               /\ Contains(outcome.value,
                      <<"U", "R", "L", " ", "a", "t", "t", "e", "m", "p", "t", "e", "d", ":", " ">>
                      \o call.request.url \o <<"\n">>))

C6_Witness ==
    /\ CrawlDone
    /\ api_response.tag = "exception"
    /\ call.url # call.request.url
    /\ outcome.kind = "returned"

C6_WitnessFormatting ==
    /\ CrawlDone
    /\ api_response.tag = "list"
    /\ CrawlFailureText = <<AttributeErrorText>>
    /\ outcome.kind = "returned"

(* C7: tavily_search never raises: on a transport or API failure of the
   search call it returns an error string naming the query and the error, so
   every invocation ends by returning text. *)
C7_SearchNeverRaises ==
    SearchDone =>
        /\ outcome.kind = "returned"
        /\ (api_response.tag = "exception" =>
               /\ Contains(outcome.value, api_response.e)
               /\ Contains(outcome.value, call.query.s))

\* a call of one of the tools that wrap their body in try/except has ended
AdapterDone ==
    /\ pc = "done"
    /\ call.tool \in {"get_booking_details", "create_booking", "delete_booking",
                      "format_research_response"}

\* the DynamoDB action a booking tool performs
TableAction(tool) ==
    CASE tool = "get_booking_details" -> "dynamodb:GetItem"
      [] tool = "create_booking" -> "dynamodb:PutItem"
      [] tool = "delete_booking" -> "dynamodb:DeleteItem"

\* the text of the exception raised inside the tool call that ended, if any
AdapterExceptionText ==
    IF call.tool = "format_research_response"
    THEN IF api_response.tag = "exception" THEN <<api_response.e>> ELSE <<>>
    ELSE IF ~Allowed("ssm:GetParameter", TableNameParameter) THEN <<AccessDeniedText>>
    ELSE IF call.fault = "ssm" THEN <<ServiceErrorText>>
    ELSE IF ~Allowed(TableAction(call.tool), BookingsTable) THEN <<AccessDeniedText>>
    ELSE IF call.fault = "dynamodb" THEN <<ServiceErrorText>>
    ELSE <<>>

(* C8: get_booking_details, create_booking, delete_booking and
   format_research_response never raise: an exception from SSM, DynamoDB,
   Bedrock or the nested agent is caught and the tool returns text carrying
   the error description (a string also from get_booking_details). *)
C8_AdaptersNeverRaise ==
    AdapterDone =>
        /\ outcome.kind = "returned"
        /\ (AdapterExceptionText # <<>> =>
               /\ outcome.type = "str"
               /\ Contains(outcome.value, AdapterExceptionText[1]))

C8_Witness ==
    /\ AdapterDone
    /\ call.tool = "create_booking"
    /\ AdapterExceptionText = <<AccessDeniedText>>
    /\ outcome = Returned(AccessDeniedText)

\* the text chunks among the items the agent produced, in order
RECURSIVE DataOf(_)
DataOf(items) ==
    IF items = <<>> THEN <<>>
    ELSE IF Head(items).type = "data" THEN <<Head(items).data>> \o DataOf(Tail(items))
    ELSE DataOf(Tail(items))

\* a is b with some elements left out, order kept
RECURSIVE IsSubsequence(_, _)
IsSubsequence(a, b) ==
    IF a = <<>> THEN TRUE
    ELSE IF b = <<>> THEN FALSE
    ELSE IF Head(a) = Head(b) THEN IsSubsequence(Tail(a), Tail(b))
    ELSE IsSubsequence(a, Tail(b))

(* C9: for a POST /invoke-streaming request with a non-empty prompt whose
   agent run produces text chunks, the response stream delivers generated
   text chunks in the order they were generated; the stream is not empty. *)
C9_StreamDelivers ==
    (http.state = "closed" /\ http.prompt # "" /\ DataOf(events) # <<>>) =>
        /\ delivered # <<>>
        /\ IsSubsequence(delivered, DataOf(events))

(* C10: in the deployed service a create_booking call with valid arguments
   writes the booking to the table, where a later scan sees it: the task role
   allows every AWS operation the booking tools perform. *)
C10_DeployedCreateWrites ==
    (pc = "done" /\ call.tool = "create_booking" /\ creds = "task_role"
       /\ call.fault = "none") =>
        /\ outcome = Returned(BookingWithId \o call.booking_id \o CreatedSuccessfully)
        /\ \E item \in table :
              /\ item.booking_id = call.booking_id
              /\ item.restaurant_name = call.restaurant_name
              /\ item.num_guests = call.num_guests

\* the requests that hold an agent
WithAgent == {r \in Requests : requests[r].agent # 0}

\* the requests whose generator call holds an is_summarizing variable
WithCell == {r \in Requests : requests[r].cell # 0}

(* C11: every /invoke and /invoke-streaming request works on an Agent that
   get_agent() built for it alone and, when streaming, on the is_summarizing
   variable of its own generator call: the conversation of a request's agent
   holds only messages of that request, and no two requests share an agent or
   an is_summarizing variable. *)
C11_RequestIsolation ==
    /\ \A r \in WithAgent :
          /\ agents[requests[r].agent].owner = r
          /\ \A i \in 1..Len(agents[requests[r].agent].messages) :
                agents[requests[r].agent].messages[i].request = r
    /\ \A r \in WithCell : cells[requests[r].cell].owner = r
    /\ \A r1, r2 \in WithAgent : r1 # r2 => requests[r1].agent # requests[r2].agent
    /\ \A r1, r2 \in WithCell : r1 # r2 => requests[r1].cell # requests[r2].cell

\* an /invoke request and an /invoke-streaming request are in progress at the
\* same time and the agent of each has gone through a round
C11_Witness ==
    \E r1, r2 \in Requests :
        /\ requests[r1].state = "running"
        /\ requests[r2].state = "streaming"
        /\ Len(agents[requests[r1].agent].messages) > 1
        /\ Len(agents[requests[r2].agent].messages) > 1

\* a get_booking_details call has ended and none of its AWS calls failed
GetSucceeded ==
    /\ pc = "done"
    /\ call.tool = "get_booking_details"
    /\ AdapterExceptionText = <<>>

\* the ledger entry of the key the call that ended was made with
CallEntry == ledger[<<call.booking_id, call.restaurant_name>>]

(* C12: after create_booking returned "Booking with ID b created
   successfully" for restaurant r, get_booking_details(b, r) returns the item
   of that booking (its date, hour, guest name and number of guests) for as
   long as no delete_booking(b, r) has run: every booking created under the
   key since the last delete is the one the call returns. *)
C12_CreateGetRoundTrip ==
    (GetSucceeded /\ CallEntry.op = "created") =>
        \A item \in CallEntry.items : outcome = ReturnedItem(item)

(* C13: after delete_booking(b, r) returned "Booking with ID b deleted
   successfully", a get_booking_details(b, r) whose AWS calls succeed returns
   "No booking found with ID b" until a booking with the same key is
   created. *)
C13_DeleteThenGet ==
    (GetSucceeded /\ CallEntry.op = "deleted") =>
        outcome = Returned(NoBookingFound \o call.booking_id)

\* the booking looked up was created and then deleted, and the table still
\* holds another booking
C13_Witness ==
    /\ GetSucceeded
    /\ CallEntry.op = "deleted"
    /\ CallEntry.removed
    /\ table # {}

(* C18: no body emitted by format_search_results_for_agent is longer than
   4000 characters: a longer body is cut to its first 4000 characters and
   followed by the truncation marker "...". *)
C18_SearchBodiesWithinBudget ==
    (SearchDone /\ ResultItems(api_response) # <<>> /\ outcome.kind = "returned") =>
        \A i \in 1..Len(formatted_results) :
            LET doc == ResultItems(api_response)[i]
                head == <<"\n">> \o ExpectedSearchHead(i, doc)
                label == IF UsableRaw(doc) THEN RawContentLabel ELSE ContentLabel
                block == formatted_results[i]
                emitted == SubSeq(block, Len(head) + Len(label) + 1, Len(block) - 1)
                source == IF UsableRaw(doc) THEN Strip(doc.raw_content.s)
                          ELSE Strip(FieldText(doc.content, <<>>))
            IN  IF Len(source) > MaxContentChars
                THEN emitted = Slice(source, MaxContentChars) \o Ellipsis
                ELSE emitted = source

(* C19: tavily_search asks the search API for the 10 results per query that
   the agent's system prompt announces, and forwards query, time_range and
   include_domains to the API unchanged. *)
C19_SearchRequest ==
    SearchDone =>
        /\ call.request.max_results = PromptResultCount
        /\ call.request.query = call.query
        /\ call.request.time_range = call.time_range
        /\ call.request.include_domains = call.include_domains

\* the /invoke requests that arrived with an empty prompt
EmptyInvokes ==
    {r \in Requests : requests[r].endpoint = "/invoke" /\ requests[r].prompt = ""}

(* C20: POST /invoke with an empty prompt answers HTTP 400 with detail
   "No prompt provided"; no agent is constructed for the request and no
   agent is called with its prompt. *)
C20_InvokeEmptyPrompt ==
    \A r \in EmptyInvokes :
        /\ requests[r].state = "responded"
        /\ requests[r].status = 400
        /\ requests[r].detail = "No prompt provided"
        /\ requests[r].agent = 0
        /\ \A a \in 1..Len(agents) :
              /\ agents[a].owner # r
              /\ \A i \in 1..Len(agents[a].messages) : agents[a].messages[i].request # r

\* an /invoke request with an empty prompt was answered while the agent of
\* another request is at work
C20_Witness ==
    \E r \in EmptyInvokes, other \in Requests :
        /\ requests[r].state = "responded"
        /\ requests[other].state = "running"
        /\ Len(agents) = 1

\* the /invoke-streaming requests that arrived with an empty prompt
EmptyStreamingInvokes ==
    {r \in Requests :
        requests[r].endpoint = "/invoke-streaming" /\ requests[r].prompt = ""}

(* C21: POST /invoke-streaming with an empty prompt answers HTTP 400 with
   detail "No prompt provided", as /invoke does, and starts no agent run. *)
C21_StreamingEmptyPrompt ==
    \A r \in EmptyStreamingInvokes :
        /\ requests[r].state = "responded"
        /\ requests[r].status = 400
        /\ requests[r].detail = "No prompt provided"
        /\ requests[r].agent = 0

\* text starts with "http://" or "https://"
HasScheme(text) ==
    \/ StartsWith(text, HttpScheme)
    \/ StartsWith(text, HttpsScheme)

\* the argument looks like JSON: its first character that is not whitespace is
\* "{" and it holds the key "url" directly followed by a colon
JsonLike(arg) ==
    /\ \E k \in 1..Len(arg) :
          arg[k] = "{" /\ \A j \in 1..(k - 1) : IsSpace(arg[j])
    /\ \E k \in 1..Len(arg) : MatchAt(arg, k - 1, UrlKey)

\* the values X of the fields "url": "X" of arg that start at position k: the
\* key, a colon, an opening quote, a non-empty X without quotes and a closing
\* quote, with only whitespace around the colon
UrlFieldsAt(arg, k) ==
    {SubSeq(arg, open + 1, close - 1) :
        <<colon, open, close>> \in
            {t \in {c \in 1..Len(arg) : arg[c] = ":"}
                   \X {c \in 1..Len(arg) : arg[c] = "\""}
                   \X {c \in 1..Len(arg) : arg[c] = "\""} :
                /\ MatchAt(arg, k - 1, UrlKeyName)
                /\ k + Len(UrlKeyName) <= t[1]
                /\ t[1] < t[2]
                /\ t[2] + 1 < t[3]
                /\ \A j \in (k + Len(UrlKeyName))..(t[1] - 1) : IsSpace(arg[j])
                /\ \A j \in (t[1] + 1)..(t[2] - 1) : IsSpace(arg[j])
                /\ \A j \in (t[2] + 1)..(t[3] - 1) : arg[j] # "\""}}

\* the positions of arg where a field "url": "X" starts
UrlFieldStarts(arg) == {k \in 1..Len(arg) : UrlFieldsAt(arg, k) # {}}

\* the url the crawl API is to receive for the argument
ExpectedCrawlUrl(arg) ==
    IF HasScheme(arg) THEN arg
    ELSE IF JsonLike(arg) /\ UrlFieldStarts(arg) # {}
    THEN LET first == CHOOSE k \in UrlFieldStarts(arg) :
                          \A j \in UrlFieldStarts(arg) : k <= j
             X == CHOOSE x \in UrlFieldsAt(arg, first) : TRUE
         IN  IF HasScheme(X) THEN X ELSE HttpsScheme \o X
    ELSE HttpsScheme \o arg

(* C22: the URL tavily_crawl sends to the crawl API starts with "http://" or
   "https://": an argument with such a prefix is sent unchanged, a JSON-like
   argument holding "url": "X" is replaced by X before the scheme check, and
   "https://" is put in front otherwise; normalizing the URL that was sent
   changes nothing. *)
C22_CrawlUrlNormalized ==
    CrawlDone =>
        /\ HasScheme(call.request.url)
        /\ call.request.url = ExpectedCrawlUrl(call.url)
        /\ (HasScheme(call.url) => call.request.url = call.url)
        /\ NormalizeUrl(call.request.url) = call.request.url

\* a JSON-like argument whose url field has no scheme was crawled
C22_Witness ==
    /\ CrawlDone
    /\ JsonLike(call.url)
    /\ UrlFieldStarts(call.url) # {}
    /\ call.request.url = HttpsScheme \o <<"x", ".", "i", "o">>

\* every item of the crawl response is a result dict
AllCrawlDicts(docs) == \A i \in 1..Len(docs) : docs[i].tag = "dict"

\* the index and URL lines of crawl result i
ExpectedCrawlHead(i, doc) ==
    <<"\n", "R", "E", "S", "U", "L", "T", " ">> \o IntToStr(i) \o <<":", "\n">>
    \o <<"U", "R", "L", ":", " ">> \o FieldText(doc.url, NoURL) \o <<"\n">>

\* the Title line and the label of the Content line of a crawl result: the
\* title is the text of raw_content before its first newline
ExpectedCrawlTitle(raw) ==
    <<"T", "i", "t", "l", "e", ":", " ">> \o SubSeq(raw, 1, FindFrom(raw, NL, 0))
    \o <<"\n">> \o <<"C", "o", "n", "t", "e", "n", "t", ":", " ">>

(* C23: for a crawl response with n >= 1 results the output holds
   "RESULT i:" and "URL: <url>" for every i in 1..n in input order; the
   "Title:" line (the first line of raw_content) and the "Content:" line are
   emitted for exactly the results whose raw_content is non-empty; a result
   with missing or empty raw_content gets its index and URL only. *)
C23_CrawlBlocks ==
    (CrawlDone /\ api_response.tag # "exception"
       /\ ResultItems(api_response) # <<>> /\ AllCrawlDicts(ResultItems(api_response))) =>
        LET docs == ResultItems(api_response)
        IN  /\ outcome.kind = "returned"
            /\ Len(formatted_results) = Len(docs)
            /\ OccurInOrder(outcome.value,
                   [i \in 1..Len(docs) |-> ExpectedCrawlHead(i, docs[i])], 0)
            /\ \A i \in 1..Len(docs) :
                  LET head == ExpectedCrawlHead(i, docs[i])
                      block == formatted_results[i]
                  IN  IF RawText(docs[i]) = <<>>
                      THEN block = head
                      ELSE /\ StartsWith(block, head \o ExpectedCrawlTitle(RawText(docs[i])))
                           /\ EndsWith(block, <<"\n">>)
                           /\ Len(block) > Len(head \o ExpectedCrawlTitle(RawText(docs[i])))

\* two results were formatted, the first without raw_content and the second
\* with a page text
C23_Witness ==
    /\ CrawlDone
    /\ Len(formatted_results) = 2
    /\ RawText(ResultItems(api_response)[1]) = <<>>
    /\ RawText(ResultItems(api_response)[2]) # <<>>
    /\ outcome.kind = "returned"

\* the input of the last iteration, in lower case, when text was typed
LastTyped == IF chat.last.event = "text" THEN <<Lower(chat.last.input)>> ELSE <<>>

(* C24: both interactive loops end only on the input "exit", in any letter
   case, or on a keyboard interrupt; the agent is not called for "exit", nor
   for "demo" in the memory loop, which only stores the preferences; an
   exception raised by an agent call is caught and reported, and the loop
   prompts again. *)
C24_ChatLoopEnds ==
    /\ chat.state = "ended" =>
          \/ chat.ended_by = "exit" /\ LastTyped = <<ExitWord>>
          \/ chat.ended_by = "interrupt"
               /\ (chat.last.event = "interrupt" \/ chat.last.result = "interrupted")
    /\ LastTyped = <<ExitWord>> =>
          chat.state = "ended" /\ chat.ended_by = "exit" /\ chat.last.called = "none"
    /\ (chat.loop = "memory_agent" /\ LastTyped = <<DemoWord>>) =>
          chat.last.called = "initialize_user_preferences"
    /\ (chat.last.called = "agent" /\ chat.last.result = "raises") =>
          chat.state = "prompting" /\ chat.reported = AgentErrorText

\* the loop went on after an agent call raised, and then ended on "EXIT"
C24_Witness ==
    /\ chat.state = "ended"
    /\ chat.turns = 3
    /\ chat.agent_calls = 2
    /\ chat.reported = AgentErrorText
    /\ chat.last.input = <<"E","X","I","T">>

\* the request state after the events served so far
CounterValue == callback.request_state.counter

(* C25: within one agent invocation that uses custom_callback_handler, after
   the k-th callback event carrying request_state the counter of the request
   state is k: absent before the first such event, 1 after it, one more per
   event; every invocation starts from a fresh request state, whatever the
   count of the invocation before. *)
C25_CallbackCounter ==
    callback.state # "off" =>
        /\ (callback.with_state = 0 => CounterValue = Missing)
        /\ (callback.with_state > 0 => CounterValue = PyInt(callback.with_state))
        /\ callback.printed = [k \in 1..callback.with_state |-> k]

\* the second invocation has counted one event after the first one counted two
C25_Witness ==
    /\ callback.invocations = 2
    /\ callback.returned.counter = PyInt(2)
    /\ callback.with_state = 1
    /\ callback.calls = 2
    /\ CounterValue = PyInt(1)

\* the step is a create_booking call that reports success
CreateSucceeds ==
    /\ pc = "idle"
    /\ pc' = "done"
    /\ call'.tool = "create_booking"
    /\ outcome' = Returned(BookingWithId \o call'.booking_id \o CreatedSuccessfully)

(* C26: create_booking never replaces or changes an existing booking: every
   successful call leaves the items of the table as they are and adds one
   item, so the item count grows by exactly one per call. *)
C26_CreateAddsOneItem ==
    [][CreateSucceeds =>
          /\ table \subseteq table'
          /\ Cardinality(table') = Cardinality(table) + 1]_vars

\* the step is a get_booking_details call
GetStep == pc = "idle" /\ pc' = "done" /\ call'.tool = "get_booking_details"

\* the step is a delete_booking call
DeleteStep == pc = "idle" /\ pc' = "done" /\ call'.tool = "delete_booking"

\* the key the call of the step is made with
StepKey == <<call'.booking_id, call'.restaurant_name>>

(* C27: bookings are addressed by the composite key (booking_id,
   restaurant_name): get_booking_details returns only the item stored under
   exactly the key given and never changes the table; delete_booking removes
   nothing but the item with exactly the key given, so a call with another
   restaurant name neither returns nor removes the booking. *)
C27_CompositeKey ==
    [][/\ GetStep =>
            /\ table' = table
            /\ (outcome'.type = "dict" =>
                   outcome'.value \in table /\ Key(outcome'.value) = StepKey)
       /\ DeleteStep =>
            /\ table' \subseteq table
            /\ \A item \in table : Key(item) # StepKey => item \in table']_vars

\* a booking is stored under (b, r); get_booking_details(b, r') with another
\* restaurant name found nothing
C27_Witness ==
    /\ pc = "done"
    /\ call.tool = "get_booking_details"
    /\ outcome = Returned(NoBookingFound \o call.booking_id)
    /\ \E item \in table :
          /\ item.booking_id = call.booking_id
          /\ item.restaurant_name # call.restaurant_name

\* the /invoke requests that arrived with a prompt
PromptInvokes ==
    {r \in Requests : requests[r].endpoint = "/invoke" /\ requests[r].prompt # ""}

(* C28: for POST /invoke with a non-empty prompt, an exception raised while
   the agent is constructed or run is answered with HTTP 500 whose detail is
   the exception text, a successful run is answered 200 with the agent's
   response as the body, and no exception leaves the handler unanswered. *)
C28_InvokeAnswers ==
    \A r \in PromptInvokes :
        /\ requests[r].state \in {"running", "responded"}
        /\ requests[r].raised # "" =>
              /\ requests[r].state = "responded"
              /\ requests[r].status = 500
              /\ requests[r].detail = requests[r].raised
              /\ requests[r].body = ""
        /\ (requests[r].state = "responded" /\ requests[r].raised = "") =>
              /\ requests[r].status = 200
              /\ requests[r].body \in Chunks
              /\ requests[r].detail = ""

\* one /invoke request failed while its agent ran, another one while its
\* agent was constructed
C28_Witness ==
    \E r1, r2 \in PromptInvokes :
        /\ requests[r1].raised = ModelErrorText
        /\ requests[r1].agent # 0
        /\ requests[r2].raised = ConstructErrorText
        /\ requests[r2].agent = 0

\* the /invoke-streaming requests that arrived with a prompt
PromptStreamingInvokes ==
    {r \in Requests :
        requests[r].endpoint = "/invoke-streaming" /\ requests[r].prompt # ""}

(* C29: for POST /invoke-streaming with a non-empty prompt, an exception
   raised while the agent is constructed or run, also one raised while the
   chunks are being streamed, is answered with HTTP 500 whose detail is the
   exception text. *)
C29_StreamingAnswers ==
    \A r \in PromptStreamingInvokes :
        requests[r].raised # "" =>
            /\ requests[r].status = 500
            /\ requests[r].detail = requests[r].raised

====
